---- MODULE Spec2Model ----
(***************************************************************************)
(* Model of the meeting-minutes retrieval backend:                         *)
(*   backend/pdf_processor.py   date extraction, chunking, process_pdf     *)
(*   backend/qdrant_service.py  vector store: upsert, search, delete       *)
(*   backend/rag_service.py     query-time date extraction, query          *)
(*   backend/api_routes.py      upload and delete handlers                 *)
(*                                                                         *)
(* Text is modelled as a sequence of tokens.  For the chunker a token is   *)
(* either a word or the whitespace token WS; for the date extractors a     *)
(* token is a whitespace-delimited word classified by its characters.     *)
(* Display strings are sequences whose digits are single characters, so    *)
(* that str.replace on a digit string is modelled on the real characters.  *)
(***************************************************************************)
EXTENDS Integers, Sequences, FiniteSets, TLC

(***************************************************************************)
(* Calendar arithmetic of datetime                                         *)
(***************************************************************************)
Min(a, b) == IF a < b THEN a ELSE b

None == [none |-> TRUE]

MkDate(y, m, d) == [year |-> y, month |-> m, day |-> d]

IsLeap(y) == (y % 4 = 0 /\ y % 100 # 0) \/ y % 400 = 0

DaysInMonth(y, m) ==
    IF m = 2 THEN (IF IsLeap(y) THEN 29 ELSE 28)
    ELSE IF m \in {4, 6, 9, 11} THEN 30 ELSE 31

\* datetime(year, month, day) raises ValueError unless this holds
ValidDate(y, m, d) ==
    /\ y >= 1 /\ y <= 9999
    /\ m >= 1 /\ m <= 12
    /\ d >= 1 /\ d <= DaysInMonth(y, m)

\* days from 1970-01-01 to the date (proleptic Gregorian calendar)
DaysFromCivil(dt) ==
    LET y   == IF dt.month <= 2 THEN dt.year - 1 ELSE dt.year
        era == y \div 400
        yoe == y - era * 400
        mp  == (dt.month + 9) % 12
        doy == (153 * mp + 2) \div 5 + dt.day - 1
        doe == yoe * 365 + yoe \div 4 - yoe \div 100 + doy
    IN  era * 146097 + doe - 719468

WeekdayNames ==
    <<"Sunday", "Monday", "Tuesday", "Wednesday", "Thursday", "Friday", "Saturday">>

MonthNames ==
    <<"January", "February", "March", "April", "May", "June", "July",
      "August", "September", "October", "November", "December">>

\* strftime('%A')
WeekdayName(dt) == WeekdayNames[((DaysFromCivil(dt) + 4) % 7) + 1]

\* strftime('%B')
MonthName(dt) == MonthNames[dt.month]

DigitChars == <<"0", "1", "2", "3", "4", "5", "6", "7", "8", "9">>

RECURSIVE Digits(_)
\* decimal digits of a natural number, one character per element
Digits(n) ==
    IF n < 10 THEN <<DigitChars[n + 1]>>
    ELSE Digits(n \div 10) \o <<DigitChars[(n % 10) + 1]>>

\* strftime('%d'): the day, zero-padded to two digits
DayDD(dt) == IF dt.day < 10 THEN <<"0">> \o Digits(dt.day) ELSE Digits(dt.day)

\* strftime('%Y') for the four-digit years of the model
YearYYYY(dt) == Digits(dt.year)

\* seconds between the epoch and midnight of the date, process time zone UTC
EpochSeconds(dt) == DaysFromCivil(dt) * 86400

\* ('th' if 11 <= day <= 13 else {1:'st', 2:'nd', 3:'rd'}.get(day % 10, 'th'))
OrdinalSuffix(day) ==
    IF 11 <= day /\ day <= 13 THEN "th"
    ELSE IF day % 10 = 1 THEN "st"
    ELSE IF day % 10 = 2 THEN "nd"
    ELSE IF day % 10 = 3 THEN "rd"
    ELSE "th"

\* datetime.isoformat() of a date-only datetime: 'YYYY-MM-DDT00:00:00'
IsoFormat(dt) ==
    YearYYYY(dt) \o <<"-">>
      \o (IF dt.month < 10 THEN <<"0">> \o Digits(dt.month) ELSE Digits(dt.month))
      \o <<"-">> \o DayDD(dt) \o <<"T00:00:00">>

IsPrefixAt(s, i, old) ==
    /\ i + Len(old) - 1 <= Len(s)
    /\ SubSeq(s, i, i + Len(old) - 1) = old

RECURSIVE ReplaceFrom(_, _, _, _)
ReplaceFrom(s, i, old, new) ==
    IF i > Len(s) THEN <<>>
    ELSE IF IsPrefixAt(s, i, old)
         THEN new \o ReplaceFrom(s, i + Len(old), old, new)
         ELSE <<s[i]>> \o ReplaceFrom(s, i + 1, old, new)

\* str.replace(old, new): every non-overlapping occurrence, left to right
StrReplace(s, old, new) == ReplaceFrom(s, 1, old, new)

\* api_routes: result['meeting_date'].strftime(f"%A %d{suffix} %B, %Y")
FormatDateRoute(dt) ==
    <<WeekdayName(dt), " ">> \o DayDD(dt) \o <<OrdinalSuffix(dt.day)>>
      \o <<" ", MonthName(dt), ",", " ">> \o YearYYYY(dt)

\* strftime('%A %d%s %B, %Y') where the C library implements %s as the
\* number of seconds since the epoch
StrftimeEpoch(dt) ==
    <<WeekdayName(dt), " ">> \o DayDD(dt) \o Digits(EpochSeconds(dt))
      \o <<" ", MonthName(dt), ",", " ">> \o YearYYYY(dt)

\* dt.strftime('%A %d%s %B, %Y').replace(dt.strftime('%d'),
\*                                        dt.strftime('%d') + suffix)
FormatDateReplace(dt) ==
    StrReplace(StrftimeEpoch(dt), DayDD(dt), DayDD(dt) \o <<OrdinalSuffix(dt.day)>>)

(***************************************************************************)
(* Date extraction (pdf_processor.extract_date, rag_service.               *)
(* extract_date_from_query).  A text is a sequence of whitespace-delimited *)
(* tokens.  A token is                                                     *)
(*   "num"   a run of digits              (val its value, nd its length)   *)
(*   "ord"   digits followed by st/nd/rd/th                                *)
(*   "alpha" an alphabetic word           (name its spelling)              *)
(* and comma tells whether a comma follows it before the whitespace.       *)
(* Numerals of the vocabulary have one, two or four digits.                *)
(***************************************************************************)
Num(v, n) == [ty |-> "num", val |-> v, nd |-> n, name |-> "", comma |-> FALSE]

Ord(v, n) == [ty |-> "ord", val |-> v, nd |-> n, name |-> "", comma |-> FALSE]

Alpha(s) == [ty |-> "alpha", val |-> 0, nd |-> 0, name |-> s, comma |-> FALSE]

Comma(t) == [t EXCEPT !.comma = TRUE]

\* str.lower() on the words of the vocabulary
Lower(s) ==
    CASE s = "January" -> "january"   [] s = "February" -> "february"
      [] s = "March" -> "march"       [] s = "April" -> "april"
      [] s = "May" -> "may"           [] s = "June" -> "june"
      [] s = "July" -> "july"         [] s = "August" -> "august"
      [] s = "September" -> "september" [] s = "October" -> "october"
      [] s = "November" -> "november" [] s = "December" -> "december"
      [] s = "MARCH" -> "march"       [] s = "Tetuary" -> "tetuary"
      [] s = "Monday" -> "monday"     [] s = "Sunday" -> "sunday"
      [] s = "Thursday" -> "thursday" [] s = "On" -> "on"
      [] OTHER -> s

\* self.months: the 12-entry name -> number table; 0 stands for .get() -> None
months(name) ==
    CASE name = "january" -> 1   [] name = "february" -> 2
      [] name = "march" -> 3     [] name = "april" -> 4
      [] name = "may" -> 5       [] name = "june" -> 6
      [] name = "july" -> 7      [] name = "august" -> 8
      [] name = "september" -> 9 [] name = "october" -> 10
      [] name = "november" -> 11 [] name = "december" -> 12
      [] OTHER -> 0

\* (?:Monday|Tuesday|...|Sunday) under re.IGNORECASE
IsWeekday(t) ==
    /\ t.ty = "alpha"
    /\ Lower(t.name) \in {"monday", "tuesday", "wednesday", "thursday",
                          "friday", "saturday", "sunday"}

NoMatch == <<>>

\* a capture group: its text is all letters (isalpha), all digits (isdigit,
\* with value val) or mixed
DigitGroup(v) == [isalpha |-> FALSE, isdigit |-> TRUE, val |-> v, text |-> ""]

\* (\w+) capturing a whole token
WordGroup(t) ==
    [isalpha |-> t.ty = "alpha", isdigit |-> t.ty = "num", val |-> t.val,
     text |-> t.name]

\* (\d{1,2}) followed by whitespace and not anchored on its left: the last
\* one or two digits of a numeral
TailDay(t) == IF t.nd > 2 THEN t.val % 100 ELSE t.val

\* (\d{1,2}) preceded by whitespace: the numeral has at most two digits
IsShortNumeral(t, sufRequired) ==
    /\ t.ty \in (IF sufRequired THEN {"ord"} ELSE {"num", "ord"})
    /\ t.nd <= 2

\* \s+(\d{4}): a numeral of four digits
IsYear(t) == t.ty \in {"num", "ord"} /\ t.nd = 4

\* (\d{1,2})(?:st|nd|rd|th)[?]\s+(\w+),?\s+(\d{4}) matched at token p
PatDayMonthYear(toks, p, sufRequired) ==
    IF /\ p + 2 <= Len(toks)
       /\ toks[p].ty \in (IF sufRequired THEN {"ord"} ELSE {"num", "ord"})
       /\ ~toks[p].comma
       /\ IsYear(toks[p + 2])
    THEN <<DigitGroup(TailDay(toks[p])), WordGroup(toks[p + 1]),
           DigitGroup(toks[p + 2].val)>>
    ELSE NoMatch

\* (\w+)\s+(\d{1,2})(?:st|nd|rd|th)[?],?\s+(\d{4}) matched at token p
PatMonthDayYear(toks, p, sufRequired) ==
    IF /\ p + 2 <= Len(toks)
       /\ ~toks[p].comma
       /\ IsShortNumeral(toks[p + 1], sufRequired)
       /\ IsYear(toks[p + 2])
    THEN <<WordGroup(toks[p]), DigitGroup(toks[p + 1].val),
           DigitGroup(toks[p + 2].val)>>
    ELSE NoMatch

\* (?:Monday|...)\s+(\d{1,2})(?:st|nd|rd|th)\s+(\w+),?\s+(\d{4})
PatWeekdayDayMonthYear(toks, p) ==
    IF /\ p + 3 <= Len(toks)
       /\ IsWeekday(toks[p]) /\ ~toks[p].comma
       /\ IsShortNumeral(toks[p + 1], TRUE) /\ ~toks[p + 1].comma
       /\ IsYear(toks[p + 3])
    THEN <<DigitGroup(toks[p + 1].val), WordGroup(toks[p + 2]),
           DigitGroup(toks[p + 3].val)>>
    ELSE NoMatch

\* PDFProcessor.date_patterns
PdfPattern1(toks, p) == PatWeekdayDayMonthYear(toks, p)
PdfPattern2(toks, p) == PatDayMonthYear(toks, p, TRUE)
PdfPattern3(toks, p) == PatMonthDayYear(toks, p, TRUE)

\* RAGService.date_patterns; the optional "on" and weekday of the first
\* pattern only extend the match to the left
RagPattern1(toks, p) == PatDayMonthYear(toks, p, FALSE)
RagPattern2(toks, p) == PatDayMonthYear(toks, p, TRUE)
RagPattern3(toks, p) == PatMonthDayYear(toks, p, FALSE)

\* The pattern named pat matched at token p
MatchAt(pat, toks, p) ==
    CASE pat = "pdf1" -> PdfPattern1(toks, p)
      [] pat = "pdf2" -> PdfPattern2(toks, p)
      [] pat = "pdf3" -> PdfPattern3(toks, p)
      [] pat = "rag1" -> RagPattern1(toks, p)
      [] pat = "rag2" -> RagPattern2(toks, p)
      [] pat = "rag3" -> RagPattern3(toks, p)

\* re.search(pattern, text, re.IGNORECASE): the groups of the leftmost match
IsMatch(g) == g # NoMatch

ReSearch(toks, pat) ==
    Head(SelectSeq([p \in 1..Len(toks) |-> MatchAt(pat, toks, p)], IsMatch)
           \o <<NoMatch>>)

\* The body run on the groups of one match: "date" (return datetime),
\* "skip" (nothing returned, next pattern), "intError" (int() raised
\* ValueError), "dateError" (datetime() raised ValueError)
InterpretGroups(g) ==
    LET dmy   == g[2].isalpha
        mname == IF dmy THEN Lower(g[2].text) ELSE Lower(g[1].text)
        dayOk == IF dmy THEN g[1].isdigit ELSE g[2].isdigit
        day   == IF dmy THEN g[1].val ELSE g[2].val
        year  == g[3].val
        month == IF dmy \/ g[1].isalpha THEN months(mname) ELSE 0
    IN  IF ~dayOk THEN [res |-> "intError"]
        ELSE IF month = 0 THEN [res |-> "skip"]
        ELSE IF ValidDate(year, month, day)
             THEN [res |-> "date", date |-> MkDate(year, month, day)]
             ELSE [res |-> "dateError"]

Raised == [raised |-> TRUE]

\* One iteration of the loop over the patterns
TryPattern(toks, pat) ==
    LET g == ReSearch(toks, pat)
    IN  IF g = NoMatch THEN [res |-> "skip"] ELSE InterpretGroups(g)

\* PDFProcessor.extract_date: int() is outside the try, datetime() inside
extract_date(toks) ==
    LET r1 == TryPattern(toks, "pdf1")
        r2 == TryPattern(toks, "pdf2")
        r3 == TryPattern(toks, "pdf3")
        step(r, rest) ==
            IF r.res = "date" THEN r.date
            ELSE IF r.res = "intError" THEN Raised
            ELSE rest
    IN  step(r1, step(r2, step(r3, None)))

\* RAGService.extract_date_from_query: the whole body is inside the try
extract_date_from_query(toks) ==
    LET r1 == TryPattern(toks, "rag1")
        r2 == TryPattern(toks, "rag2")
        r3 == TryPattern(toks, "rag3")
        step(r, rest) == IF r.res = "date" THEN r.date ELSE rest
    IN  step(r1, step(r2, step(r3, None)))

(***************************************************************************)
(* Document chunker (pdf_processor.chunk_text).  A document text is a      *)
(* sequence of word tokens and whitespace tokens WS in which no two words  *)
(* are adjacent (adjacent letters form one word).                          *)
(***************************************************************************)
WS == " "

IsWord(t) == t # WS

\* str.split(): the maximal runs of non-whitespace, in order
Split(text) == SelectSeq(text, IsWord)

\* " ".join(ws)
Join(ws) ==
    IF Len(ws) = 0 THEN <<>>
    ELSE [k \in 1..(2 * Len(ws) - 1) |-> IF k % 2 = 1 THEN ws[(k + 1) \div 2] ELSE WS]

\* bool(s.strip()): something other than whitespace is left
StripTruthy(s) == \E k \in 1..Len(s) : s[k] # WS

RECURSIVE RangeFrom(_, _, _)
\* range(i, stop, step) for step # 0, as the list of values it yields
RangeFrom(i, stop, step) ==
    IF (step > 0 /\ i >= stop) \/ (step < 0 /\ i <= stop) THEN <<>>
    ELSE <<i>> \o RangeFrom(i + step, stop, step)

\* The step of the loop of chunk_text
ChunkStepNoOverlap(chunk_size, overlap) == chunk_size

ChunkStepOffByOne(chunk_size, overlap) == chunk_size - overlap + 1

\* range(0, len(words), chunk_size - overlap)
ChunkStep(chunk_size, overlap) == chunk_size - overlap

\* The loop stopped at the first window that reaches the last word
chunk_bounds_until_covered(n, chunk_size, overlap) ==
    LET step == ChunkStep(chunk_size, overlap)
    IN  IF step = 0 THEN [error |-> "ValueError"]
        ELSE LET starts == RangeFrom(0, n, step)
                 Needed(k) == k = 1 \/ starts[k - 1] + chunk_size < n
                 all == [k \in 1..Len(starts) |->
                           <<starts[k], Min(starts[k] + chunk_size, n)>>]
             IN  [error |-> "",
                  bounds |-> [k \in 1..Cardinality({j \in 1..Len(starts) : Needed(j)}) |->
                                all[k]]]

\* The loop of chunk_text over a list of n words: for each i of the range
\* the bounds <<i, j>> of the window words[i:i + chunk_size] (0-based, j
\* exclusive); range() raises ValueError for a zero step.  The result is
\* [error, bounds]
chunk_bounds(n, chunk_size, overlap) ==
    LET step == ChunkStep(chunk_size, overlap)
    IN  IF step = 0 THEN [error |-> "ValueError"]
        ELSE LET starts == RangeFrom(0, n, step)
             IN  [error |-> "",
                  bounds |-> [k \in 1..Len(starts) |->
                                <<starts[k], Min(starts[k] + chunk_size, n)>>]]

\* PDFProcessor.chunk_text: [error, chunks]
chunk_text(text, chunk_size, overlap) ==
    LET words == Split(text)
        bs    == chunk_bounds(Len(words), chunk_size, overlap)
        win(k) == Join(SubSeq(words, bs.bounds[k][1] + 1, bs.bounds[k][2]))
    IN  IF bs.error # "" THEN [error |-> bs.error]
        ELSE [error |-> "",
              chunks |-> SelectSeq([k \in 1..Len(bs.bounds) |-> win(k)], StripTruthy)]

(***************************************************************************)
(* Bounds and inputs of the system model                                   *)
(***************************************************************************)
\* ids the database sequence hands out before uploads of new dates stop
MaxMeetings == 2

\* chunk_text(self, text, chunk_size=1000, overlap=200)
ChunkSizeDefault == 1000

OverlapDefault == 200

\* search_relevant_chunks(..., top_k=5)
TopK == 5

\* The uploaded documents: the tokens of the first 2000 characters that the
\* date patterns can match, and the number of words of the whole text.
\* A6 and A4 carry one date (6 and 4 chunks), B1 another
Docs ==
    { [name |-> "A6", head |-> <<Ord(3, 1), Comma(Alpha("March")), Num(2025, 4)>>,
       nwords |-> 4100],
      [name |-> "A4", head |-> <<Alpha("Monday"), Ord(3, 1), Comma(Alpha("March")), Num(2025, 4)>>,
       nwords |-> 2500],
      [name |-> "B1", head |-> <<Alpha("March"), Comma(Ord(20, 2)), Num(2025, 4)>>,
       nwords |-> 500],
      [name |-> "NoDate", head |-> <<Alpha("Minutes"), Ord(32, 2), Comma(Alpha("Tetuary")), Num(2025, 4)>>,
       nwords |-> 300],
      [name |-> "Empty", head |-> <<>>, nwords |-> 0] }

\* The query texts
Queries ==
    { [name |-> "on March 3rd, 2025",
       toks |-> <<Alpha("on"), Alpha("March"), Comma(Ord(3, 1)), Num(2025, 4)>>],
      [name |-> "20th March 2025",
       toks |-> <<Alpha("decisions"), Ord(20, 2), Alpha("March"), Num(2025, 4)>>],
      [name |-> "Sunday 26th October, 2025",
       toks |-> <<Alpha("Sunday"), Ord(26, 2), Comma(Alpha("October")), Num(2025, 4)>>],
      [name |-> "what was decided",
       toks |-> <<Alpha("what"), Alpha("was"), Alpha("decided")>>],
      [name |-> "31st February, 2025",
       toks |-> <<Ord(31, 2), Comma(Alpha("February")), Num(2025, 4)>>] }

(***************************************************************************)
(* State                                                                   *)
(***************************************************************************)
VARIABLES
    meetings,   \* rows of meeting_minutes: [id, meeting_date, filename, qdrant_collection]
    nextId,     \* next value of the id sequence of meeting_minutes
    points,     \* points of the Qdrant collection, one record per point id
    platform,   \* what the C library's strftime does with %s
    last,       \* the request being answered and its response, or Idle
    deleted,    \* the delete requests that returned 200: [id, vectors_deleted]
    ctext,      \* chunk_text under test: its text,
    csize,      \*   its chunk_size,
    coverlap,   \*   its overlap,
    cresult,    \*   and its result
    eresp,      \* generate_embedding under test: what requests.post met,
    eresult,    \*   and the value returned
    dtoks,      \* the date extractors under test: the tokens of the text,
    dpdf,       \*   what PDFProcessor.extract_date did with it
    drag,       \*   and what RAGService.extract_date_from_query did
    reqs        \* upload requests handled side by side: for each its step
                \*   (pc), document, the row it works on and its response

sysvars == <<meetings, nextId, points, platform, last, deleted>>

chunkvars == <<ctext, csize, coverlap, cresult>>

embedvars == <<eresp, eresult>>

datevars == <<dtoks, dpdf, drag>>

vars == <<meetings, nextId, points, platform, last, deleted, ctext, csize, coverlap, cresult,
          eresp, eresult, dtoks, dpdf, drag, reqs>>

(***************************************************************************)
(* pdf_processor.process_pdf                                               *)
(***************************************************************************)
\* The chunks of a document: chunk k is the text " ".join(words[lo:hi]) of
\* the document, written [doc, lo, hi]; empty chunks are dropped
DocChunks(doc) ==
    LET bs   == chunk_bounds(doc.nwords, ChunkSizeDefault, OverlapDefault).bounds
        text == [k \in 1..Len(bs) |-> [doc |-> doc.name, lo |-> bs[k][1], hi |-> bs[k][2]]]
        NonEmpty(c) == c.hi > c.lo
    IN  SelectSeq(text, NonEmpty)

\* PDFProcessor.process_pdf: ValueError for an empty text or a missing date
process_pdf(doc) ==
    LET d == IF doc.nwords = 0 THEN None ELSE extract_date(doc.head)
    IN  IF doc.nwords = 0 \/ d = None \/ d = Raised
        THEN [error |-> "ValueError"]
        ELSE [error |-> "", meeting_date |-> d, chunks |-> DocChunks(doc),
              total_chunks |-> Len(DocChunks(doc))]

\* result = pdf_processor.process_pdf(tmp_path), for each document
Processed == [doc \in Docs |-> process_pdf(doc)]

(***************************************************************************)
(* qdrant_service                                                          *)
(***************************************************************************)
\* f"meeting_{meeting_db_id}"
CollectionName(id) == <<"meeting_", id>>

\* int(meeting_id.replace("meeting_", "")): ValueError for the empty string
ParseMeetingId(coll) ==
    IF coll = <<>> THEN [error |-> "ValueError"]
    ELSE [error |-> "", id |-> coll[Len(coll)]]

\* self.vector_size = 384
VectorSize == 384

\* Python values as response.json() returns them: a list of values, a
\* number, or any other object (dict, str, None)
JNum(x) == [ty |-> "num", v |-> x]

JList(items) == [ty |-> "list", items |-> items]

JOther(what) == [ty |-> what]

\* [0.0] * self.vector_size
ZeroVector == JList([k \in 1..VectorSize |-> JNum(0)])

\* The unwrapping of generate_embedding: a non-empty list whose first
\* element is a list is replaced by that element; anything else is kept
UnwrapNever(embedding) == embedding

Unwrap(embedding) ==
    IF embedding.ty = "list" /\ Len(embedding.items) > 0
    THEN IF embedding.items[1].ty = "list" THEN embedding.items[1] ELSE embedding
    ELSE embedding

\* QdrantService.generate_embedding.  resp is what the request met: an
\* exception of requests.post, of raise_for_status or of response.json(), or
\* the parsed body; every exception is caught and gives the zero vector
generate_embedding(resp) ==
    IF resp.kind # "json" THEN ZeroVector
    ELSE Unwrap(resp.body)

\* The PointStruct of chunk idx (0-based) of a meeting; iso and formatted
\* are meeting_date.isoformat() and the display string of the payload
MakePoint(chunk, idx, iso, formatted, filename, meeting_db_id) ==
    [id |-> <<meeting_db_id, "_", idx>>,
     text |-> chunk,
     meeting_date |-> iso,
     meeting_date_formatted |-> formatted,
     filename |-> filename,
     chunk_index |-> idx,
     meeting_db_id |-> meeting_db_id]

\* client.upsert: a point replaces the stored point of the same id
UpsertPoints(store, new) ==
    {p \in store : \A n \in new : n.id # p.id} \cup new

\* QdrantService.store_meeting_chunks.  strftime raises ValueError on a
\* platform without %s; client.upsert may fail (upsertOk = FALSE)
store_meeting_chunks(store, chunks, meeting_date, filename, meeting_db_id, plat, upsertOk) ==
    LET iso == IsoFormat(meeting_date)
        formatted == FormatDateReplace(meeting_date)
        new == {MakePoint(chunks[k], k - 1, iso, formatted, filename, meeting_db_id) :
                   k \in 1..Len(chunks)}
    IN  IF Len(chunks) > 0 /\ plat = "invalid"
        THEN [error |-> "ValueError", points |-> store]
        ELSE IF ~upsertOk
        THEN [error |-> "Exception", points |-> store]
        ELSE [error |-> "", points |-> UpsertPoints(store, new),
              ret |-> CollectionName(meeting_db_id)]

DeleteByMeetingIdKeepsAll(store, id) == store

\* client.delete with the filter meeting_db_id == id
DeleteByMeetingId(store, id) == {p \in store : p.meeting_db_id # id}

\* QdrantService.delete_meeting: re-raises a failed parse or a failed
\* client.delete (deleteOk = FALSE)
delete_meeting(store, coll, deleteOk) ==
    LET parsed == ParseMeetingId(coll)
    IN  IF parsed.error # "" \/ ~deleteOk
        THEN [error |-> "Exception", points |-> store]
        ELSE [error |-> "", points |-> DeleteByMeetingId(store, parsed.id)]

\* datetime.fromisoformat on a stored 'YYYY-MM-DDT00:00:00'
DigitVal(c) == CHOOSE v \in 0..9 : DigitChars[v + 1] = c

FromIsoFormat(iso) ==
    MkDate(DigitVal(iso[1]) * 1000 + DigitVal(iso[2]) * 100
             + DigitVal(iso[3]) * 10 + DigitVal(iso[4]),
           DigitVal(iso[6]) * 10 + DigitVal(iso[7]),
           DigitVal(iso[9]) * 10 + DigitVal(iso[10]))

PointRank(p) == p.meeting_db_id * 100 + p.chunk_index

RECURSIVE PointsInOrder(_)
PointsInOrder(S) ==
    IF S = {} THEN <<>>
    ELSE LET p == CHOOSE x \in S : \A y \in S : PointRank(x) <= PointRank(y)
         IN  <<p>> \o PointsInOrder(S \ {p})

\* The filter of search_relevant_chunks: payload meeting_date equals
\* meeting_date.isoformat()
MatchesFilterAnyDate(p, meeting_date) == TRUE

MatchesFilter(p, meeting_date) == p.meeting_date = IsoFormat(meeting_date)

\* limit=top_k of client.search
SearchLimit(n, top_k) == Min(n, top_k)

\* client.search(query_vector, limit, query_filter): the limit best-scoring
\* points among those that pass the filter.  The scores belong to the
\* embedding provider; the ranking is taken to be the stored order rotated
\* by rot places
ClientSearch(store, meeting_date, top_k, rot) ==
    LET hits == PointsInOrder({p \in store : MatchesFilter(p, meeting_date)})
        n    == Len(hits)
    IN  [k \in 1..SearchLimit(n, top_k) |-> hits[((k - 1 + rot) % n) + 1]]

\* The result entries built by search_relevant_chunks
FormatResult(p) ==
    [text |-> p.text, meeting_date |-> p.meeting_date,
     meeting_date_formatted |-> p.meeting_date_formatted,
     chunk_index |-> p.chunk_index]

\* QdrantService.search_relevant_chunks: [error, chunks]; generate_embedding returns a vector
\* on every path, client.search may raise (searchOk = FALSE)
search_relevant_chunks(store, meeting_date, top_k, rot, searchOk) ==
    IF ~searchOk THEN [error |-> "Exception"]
    ELSE LET res == ClientSearch(store, meeting_date, top_k, rot)
         IN  [error |-> "", chunks |-> [k \in 1..Len(res) |-> FormatResult(res[k])]]

\* QdrantService.get_most_recent_meeting_date: the date of the top hit p of
\* an unfiltered search with limit 1 (p = None for an empty collection);
\* client.search may raise (searchOk = FALSE)
get_most_recent_meeting_date(p, searchOk) ==
    IF ~searchOk THEN Raised
    ELSE IF p = None THEN None
    ELSE FromIsoFormat(p.meeting_date)

(***************************************************************************)
(* rag_service.RAGService.query                                            *)
(***************************************************************************)
ResolveDateAlwaysLooksUp(toks, top, recentOk) ==
    LET qd == extract_date_from_query(toks)
    IN  [date |-> IF qd # None THEN qd
                  ELSE get_most_recent_meeting_date(top, recentOk),
         calls |-> <<"extract_date", "most_recent_date">>]

\* The first step of query: the date of the query text, and the
\* most-recent lookup only if the text has none.  calls lists the
\* collaborators called so far
ResolveDate(toks, top, recentOk) ==
    LET qd == extract_date_from_query(toks)
    IN  IF qd # None
        THEN [date |-> qd, calls |-> <<"extract_date">>]
        ELSE [date |-> get_most_recent_meeting_date(top, recentOk),
              calls |-> <<"extract_date", "most_recent_date">>]

\* query from the result found of the search on: the no-match answer, or
\* the generation call inside try/except
query_searched(rd, found, plat, genOk) ==
    LET chunks == found.chunks
        calls2 == Append(rd.calls, "search")
    IN
    IF found.error # ""
    THEN [outcome |-> "exception", calls |-> calls2, date |-> rd.date]
    ELSE IF Len(chunks) = 0
    THEN IF plat = "invalid"
         THEN [outcome |-> "exception", calls |-> calls2, date |-> rd.date]
         ELSE [outcome |-> "no-match", calls |-> calls2, date |-> rd.date,
               answer |-> [kind |-> "no-match",
                           date_text |-> FormatDateReplace(rd.date)],
               meeting_date |-> IsoFormat(rd.date),
               meeting_date_formatted |-> None,
               sources |-> <<>>]
    ELSE IF genOk
    THEN [outcome |-> "answered", calls |-> Append(calls2, "generate"),
          date |-> rd.date,
          answer |-> [kind |-> "generated"],
          meeting_date |-> IsoFormat(rd.date),
          meeting_date_formatted |-> chunks[1].meeting_date_formatted,
          sources |-> chunks]
    ELSE [outcome |-> "generation-error", calls |-> Append(calls2, "generate"),
          date |-> rd.date,
          answer |-> [kind |-> "error"],
          meeting_date |-> IsoFormat(rd.date),
          meeting_date_formatted |-> chunks[1].meeting_date_formatted,
          sources |-> chunks]

\* query from the resolved date rd on: the no-data answer, or the search
\* and what follows it
query_resolved(rd, store, plat, rot, searchOk, genOk) ==
    IF rd.date = Raised
    THEN [outcome |-> "exception", calls |-> rd.calls, date |-> None]
    ELSE IF rd.date = None
    THEN [outcome |-> "no-data", calls |-> rd.calls, date |-> None,
          answer |-> [kind |-> "no-data"],
          meeting_date |-> None, meeting_date_formatted |-> None,
          sources |-> <<>>]
    ELSE query_searched(rd, search_relevant_chunks(store, rd.date, TopK, rot, searchOk),
                        plat, genOk)

\* RAGService.query.  top: the top hit of the most-recent lookup; rot: the
\* ranking of the search; recentOk, searchOk, genOk: whether the two
\* vector-store calls and the generation call succeed
query(store, plat, toks, top, rot, recentOk, searchOk, genOk) ==
    query_resolved(ResolveDate(toks, top, recentOk), store, plat, rot, searchOk, genOk)

(***************************************************************************)
(* api_routes: the upload and delete handlers, one request at a time.      *)
(* last holds the request being answered and its response; Respond hands   *)
(* the response over, after which the next request is taken                *)
(***************************************************************************)
Idle == [op |-> "idle"]

\* db.query(MeetingMinute).filter(meeting_date == date): the matching rows
FindExistingNone(rows, date) == {}

FindExisting(rows, date) == {m \in rows : m.meeting_date = date}

\* The old-vector delete of a re-upload, inside try/except: a failure is
\* printed and swallowed
DeleteOldVectorsSkipped(store, rec, deleteOk) ==
    [error |-> "", points |-> store]

DeleteOldVectors(store, rec, deleteOk) ==
    delete_meeting(store, rec.qdrant_collection, deleteOk)

\* upload_meeting_minutes from the new vectors on.  r: the result of
\* process_pdf; del: the result of the old-vector delete; rec: the row of the
\* date; st: the result of store_meeting_chunks
upload_stored(doc, r, existing, del, rec, st) ==
    LET rows == IF existing THEN meetings ELSE meetings \cup {rec}
        nid  == IF existing THEN nextId ELSE nextId + 1
        base == [meetings |-> rows, nextId |-> nid, points |-> st.points,
                 status |-> 200, existing |-> existing, meeting_id |-> rec.id,
                 old_deleted |-> existing /\ del.error = "",
                 total_chunks |-> r.total_chunks]
    IN
    IF st.error = "ValueError" THEN [base EXCEPT !.status = 400]
    ELSE IF st.error # "" THEN [base EXCEPT !.status = 500]
    ELSE [base EXCEPT !.meetings =
             (rows \ {rec}) \cup
                {[rec EXCEPT !.qdrant_collection = st.ret, !.filename = doc.name]}]

\* upload_meeting_minutes from the row of the date on: the vectors of the
\* document are stored under the id of the row
upload_record(doc, r, existing, del, rec, upsertOk) ==
    upload_stored(doc, r, existing, del, rec,
                  store_meeting_chunks(del.points, r.chunks, r.meeting_date,
                                       doc.name, rec.id, platform, upsertOk))

\* The row committed before the result of process_pdf is looked at
upload_processed_commits_first(doc, r, ex, deleteOk, upsertOk) ==
    IF r.error # ""
    THEN [meetings |-> meetings \cup
                         {[id |-> nextId, meeting_date |-> None,
                           filename |-> doc.name, qdrant_collection |-> <<>>]},
          nextId |-> nextId + 1, points |-> points,
          status |-> 400, existing |-> FALSE, meeting_id |-> 0,
          old_deleted |-> FALSE, total_chunks |-> 0]
    ELSE IF ex # None
    THEN upload_record(doc, r, TRUE, DeleteOldVectors(points, ex, deleteOk), ex, upsertOk)
    ELSE upload_record(doc, r, FALSE, [error |-> "", points |-> points],
                       [id |-> nextId, meeting_date |-> r.meeting_date,
                        filename |-> doc.name, qdrant_collection |-> <<>>],
                       upsertOk)

\* upload_meeting_minutes from the result r of process_pdf on: 400 for a
\* ValueError; for an existing row its old vectors are deleted and the row
\* is kept, otherwise a new row is committed
upload_processed(doc, r, ex, deleteOk, upsertOk) ==
    IF r.error # ""
    THEN [meetings |-> meetings, nextId |-> nextId, points |-> points,
          status |-> 400, existing |-> FALSE, meeting_id |-> 0,
          old_deleted |-> FALSE, total_chunks |-> 0]
    ELSE IF ex # None
    THEN upload_record(doc, r, TRUE, DeleteOldVectors(points, ex, deleteOk), ex, upsertOk)
    ELSE upload_record(doc, r, FALSE, [error |-> "", points |-> points],
                       [id |-> nextId, meeting_date |-> r.meeting_date,
                        filename |-> doc.name, qdrant_collection |-> <<>>],
                       upsertOk)

\* upload_meeting_minutes.  ex: the row .first() returned or None; the
\* result holds the new tables and the response
upload_meeting_minutes(doc, ex, deleteOk, upsertOk) ==
    upload_processed(doc, Processed[doc], ex, deleteOk, upsertOk)

Upload ==
    /\ last = Idle
    /\ \E doc \in Docs, deleteOk \in BOOLEAN, upsertOk \in BOOLEAN :
      \E r \in {Processed[doc]} :
      \E found \in {IF r.error # "" THEN {} ELSE FindExisting(meetings, r.meeting_date)} :
      \E ex \in (IF found = {} THEN {None} ELSE found) :
      \E u \in {upload_meeting_minutes(doc, ex, deleteOk, upsertOk)} :
                /\ u.nextId <= MaxMeetings + 1
                /\ meetings' = u.meetings
                /\ nextId' = u.nextId
                /\ points' = u.points
                /\ last' = [op |-> "upload", doc |-> doc.name, status |-> u.status,
                            existing |-> u.existing, meeting_id |-> u.meeting_id,
                            old_deleted |-> u.old_deleted,
                            total_chunks |-> u.total_chunks,
                            date |-> IF r.error # "" THEN None ELSE r.meeting_date,
                            rows_before |-> {<<m.id, m.meeting_date>> : m \in meetings},
                            old_points |-> Cardinality({p \in points :
                                               p.meeting_db_id = u.meeting_id})]
                /\ UNCHANGED <<platform, deleted, chunkvars, embedvars, datevars, reqs>>

\* delete_meeting of api_routes: 404 for an unknown id; the vector delete is
\* inside try/except and the row is deleted whether or not it succeeded.
\* client_ok: the vector store served the client.delete call, if one was made
DeleteVectorsOfMeeting(store, rec, deleteOk) ==
    delete_meeting(store, rec.qdrant_collection, deleteOk)

DeleteMeeting ==
    /\ last = Idle
    /\ \E id \in 1..MaxMeetings, deleteOk \in BOOLEAN :
      LET found == {m \in meetings : m.id = id}
      IN  IF found = {}
          THEN /\ last' = [op |-> "delete", id |-> id, status |-> 404,
                           vectors_deleted |-> FALSE, had_points |-> 0,
                           client_ok |-> TRUE]
               /\ UNCHANGED <<meetings, nextId, points, platform, deleted, chunkvars, embedvars, datevars, reqs>>
          ELSE \E rec \in found :
                 LET del == DeleteVectorsOfMeeting(points, rec, deleteOk)
                 IN  /\ points' = del.points
                     /\ meetings' = meetings \ {rec}
                     /\ last' = [op |-> "delete", id |-> id, status |-> 200,
                                 vectors_deleted |-> del.error = "",
                                 had_points |-> Cardinality({p \in points :
                                                   p.meeting_db_id = id}),
                                 client_ok |-> deleteOk]
                     /\ deleted' = deleted \cup
                            {[id |-> id, vectors_deleted |-> del.error = ""]}
                     /\ UNCHANGED <<nextId, platform, chunkvars, embedvars, datevars, reqs>>

\* RAGService.query called by the query handler.  The choices of the
\* environment are drawn only where the code reads them: the top hit of the
\* most-recent lookup when the text has no date, the ranking among the
\* points of the resolved date
Query ==
    /\ last = Idle
    /\ \E q \in Queries :
      \E qd \in {extract_date_from_query(q.toks)} :
      \E top \in (IF qd # None \/ points = {} THEN {None}
                  ELSE {CHOOSE p \in points : p.meeting_date = iso :
                           iso \in {x.meeting_date : x \in points}}),
         recentOk \in (IF qd # None THEN {TRUE} ELSE BOOLEAN) :
      \E rd \in {ResolveDate(q.toks, top, recentOk)} :
      \E n \in {IF rd.date \in {None, Raised} THEN 0
                ELSE Cardinality({p \in points : MatchesFilter(p, rd.date)})} :
                \E rot \in 0..(IF n = 0 THEN 0 ELSE n - 1),
                   searchOk \in (IF rd.date \in {None, Raised} THEN {TRUE} ELSE BOOLEAN),
                   genOk \in (IF n = 0 THEN {TRUE} ELSE BOOLEAN) :
                  /\ last' = [op |-> "query", q |-> q.name, empty_store |-> points = {},
                              res |-> query(points, platform, q.toks, top, rot,
                                            recentOk, searchOk, genOk)]
                  /\ UNCHANGED <<meetings, nextId, points, platform, deleted, chunkvars, embedvars, datevars, reqs>>

\* The response leaves the handler
Respond ==
    /\ last # Idle
    /\ last' = Idle
    /\ UNCHANGED <<meetings, nextId, points, platform, deleted, chunkvars, embedvars, datevars, reqs>>

(***************************************************************************)
(* Upload requests handled side by side (several worker processes): the    *)
(* steps of upload_meeting_minutes, each a call to the database or to the  *)
(* vector store, taken one at a time by any request.  The handler holds no *)
(* lock and meeting_date has no unique constraint                          *)
(***************************************************************************)
MaxRequests == 2

NoRequest == [pc |-> "idle", doc |-> None, existing |-> FALSE, rec |-> None,
              ret |-> None, status |-> 0]

NoRequests == [r \in 1..MaxRequests |-> NoRequest]

\* db.add(meeting_record); db.commit(): the row joins the table
CommitRowUniqueDate(rows, rec) ==
    IF \E m \in rows : m.meeting_date = rec.meeting_date THEN rows
    ELSE rows \cup {rec}

CommitRow(rows, rec) == rows \cup {rec}

\* The final db.commit(): the UPDATE of the row with the id of
\* meeting_record
UpdateRow(rows, id, ret, filename) ==
    {IF m.id = id THEN [m EXCEPT !.qdrant_collection = ret, !.filename = filename]
     ELSE m : m \in rows}

\* process_pdf: a ValueError ends the request with 400
UploadStart(r) ==
    /\ reqs[r].pc = "idle"
    /\ r > 1 => reqs[r - 1].pc # "idle"
    /\ \E doc \in Docs :
          reqs' = [reqs EXCEPT ![r] =
                     IF Processed[doc].error # ""
                     THEN [NoRequest EXCEPT !.pc = "done", !.doc = doc, !.status = 400]
                     ELSE [NoRequest EXCEPT !.pc = "check", !.doc = doc]]
    /\ UNCHANGED <<sysvars, chunkvars, embedvars, datevars>>

\* existing = db.query(MeetingMinute).filter(...).first()
UploadCheck(r) ==
    /\ reqs[r].pc = "check"
    /\ \E found \in {FindExisting(meetings, Processed[reqs[r].doc].meeting_date)} :
       \E ex \in (IF found = {} THEN {None} ELSE found) :
          reqs' = [reqs EXCEPT ![r] =
                     IF ex = None THEN [@ EXCEPT !.pc = "commit"]
                     ELSE [@ EXCEPT !.pc = "delete", !.existing = TRUE, !.rec = ex]]
    /\ UNCHANGED <<sysvars, chunkvars, embedvars, datevars>>

\* qdrant_service.delete_meeting(meeting_record.qdrant_collection) inside
\* try/except
UploadDeleteOld(r) ==
    /\ reqs[r].pc = "delete"
    /\ \E deleteOk \in BOOLEAN :
          points' = DeleteOldVectors(points, reqs[r].rec, deleteOk).points
    /\ reqs' = [reqs EXCEPT ![r].pc = "store"]
    /\ UNCHANGED <<meetings, nextId, platform, last, deleted, chunkvars, embedvars, datevars>>

\* the new MeetingMinute row: db.add, db.commit, db.refresh
UploadCommit(r) ==
    /\ reqs[r].pc = "commit"
    /\ \E rec \in {[id |-> nextId,
                     meeting_date |-> Processed[reqs[r].doc].meeting_date,
                     filename |-> reqs[r].doc.name, qdrant_collection |-> <<>>]} :
          /\ meetings' = CommitRow(meetings, rec)
          /\ reqs' = [reqs EXCEPT ![r].pc = "store", ![r].rec = rec]
    /\ nextId' = nextId + 1
    /\ UNCHANGED <<points, platform, last, deleted, chunkvars, embedvars, datevars>>

\* qdrant_service.store_meeting_chunks: a failure ends the request with 400
\* or 500
UploadStore(r) ==
    /\ reqs[r].pc = "store"
    /\ \E upsertOk \in BOOLEAN :
       \E st \in {store_meeting_chunks(points, Processed[reqs[r].doc].chunks,
                                       Processed[reqs[r].doc].meeting_date,
                                       reqs[r].doc.name, reqs[r].rec.id, platform,
                                       upsertOk)} :
          /\ points' = st.points
          /\ reqs' = [reqs EXCEPT ![r] =
                        IF st.error = "ValueError"
                        THEN [@ EXCEPT !.pc = "done", !.status = 400]
                        ELSE IF st.error # ""
                        THEN [@ EXCEPT !.pc = "done", !.status = 500]
                        ELSE [@ EXCEPT !.pc = "update", !.ret = st.ret]]
    /\ UNCHANGED <<meetings, nextId, platform, last, deleted, chunkvars, embedvars, datevars>>

\* meeting_record.qdrant_collection = meeting_id ...; db.commit()
UploadUpdate(r) ==
    /\ reqs[r].pc = "update"
    /\ meetings' = UpdateRow(meetings, reqs[r].rec.id, reqs[r].ret, reqs[r].doc.name)
    /\ reqs' = [reqs EXCEPT ![r].pc = "done", ![r].status = 200]
    /\ UNCHANGED <<nextId, points, platform, last, deleted, chunkvars, embedvars, datevars>>

(***************************************************************************)
(* chunk_text on its own                                                   *)
(***************************************************************************)
MaxTextLen == 5

MaxWindow == 3

NotRun == [notrun |-> TRUE]

\* texts of at most n tokens over two words and whitespace
RECURSIVE TextsUpTo(_)
TextsUpTo(n) ==
    IF n = 0 THEN {<<>>}
    ELSE LET shorter == TextsUpTo(n - 1)
         IN  shorter \cup
             {Append(t, c) : t \in {u \in shorter : Len(u) = n - 1}, c \in {"a", "b", WS}}

WellFormedText(t) == \A k \in 1..(Len(t) - 1) : t[k] = WS \/ t[k + 1] = WS

\* a document of n words separated by single spaces
WordsText(n) == [k \in 1..(2 * n - 1) |-> IF k % 2 = 1 THEN "a" ELSE WS]

ChunkInputs ==
    {<<t, w, o>> : t \in {u \in TextsUpTo(MaxTextLen) : WellFormedText(u)},
                   w \in 1..MaxWindow, o \in 0..MaxWindow}
      \cup {<<WordsText(2400), ChunkSizeDefault, OverlapDefault>>,
            <<WordsText(2500), ChunkSizeDefault, OverlapDefault>>}

ChunkCall ==
    /\ cresult = NotRun
    /\ cresult' = chunk_text(ctext, csize, coverlap)
    /\ UNCHANGED <<ctext, csize, coverlap, sysvars, embedvars, datevars, reqs>>

(***************************************************************************)
(* generate_embedding on its own                                           *)
(***************************************************************************)
\* lengths of the vectors a provider answers with, around VectorSize
VectorLengths == {0, 1, 2, VectorSize - 1, VectorSize, VectorSize + 1}

FlatVectors == {JList([k \in 1..n |-> JNum(x)]) : n \in VectorLengths, x \in {0, 1, 2}}

\* the bodies that parse as JSON: a vector, a batch of one or two vectors, a
\* batch of batches, and values that are no list at all
JsonBodies ==
    FlatVectors
      \cup {JList(<<v>>) : v \in FlatVectors}
      \cup {JList(<<v, v>>) : v \in FlatVectors}
      \cup {JList(<<JList(<<v>>)>>) : v \in FlatVectors}
      \cup {JOther("dict"), JOther("str"), JOther("None"), JNum(1)}

ProviderResponses ==
    {[kind |-> k] : k \in {"ConnectionError", "Timeout", "HTTPError", "JSONDecodeError"}}
      \cup {[kind |-> "json", body |-> b] : b \in JsonBodies}

EmbedCall ==
    /\ eresult = NotRun
    /\ eresult' = generate_embedding(eresp)
    /\ UNCHANGED <<eresp, sysvars, chunkvars, datevars, reqs>>

(***************************************************************************)
(* The two date extractors on their own                                    *)
(***************************************************************************)
MaxTokens == 4

\* the words of the texts: a weekday, a month name, a word that is no
\* month, ordinals (one followed by a comma, one no day of any month) and a
\* year
Vocabulary ==
    {Alpha("Monday"), Alpha("March"), Alpha("Tetuary"),
     Ord(3, 1), Comma(Ord(3, 1)), Ord(32, 2), Num(2025, 4)}

RECURSIVE TokensUpTo(_)
TokensUpTo(n) ==
    IF n = 0 THEN {<<>>}
    ELSE LET shorter == TokensUpTo(n - 1)
         IN  shorter \cup
             {Append(t, c) : t \in {u \in shorter : Len(u) = n - 1}, c \in Vocabulary}

ExtractDateCall ==
    /\ dpdf = NotRun
    /\ dpdf' = extract_date(dtoks)
    /\ UNCHANGED <<dtoks, drag, sysvars, chunkvars, embedvars, reqs>>

ExtractDateFromQueryCall ==
    /\ drag = NotRun
    /\ drag' = extract_date_from_query(dtoks)
    /\ UNCHANGED <<dtoks, dpdf, sysvars, chunkvars, embedvars, reqs>>

(***************************************************************************)
(* Specifications                                                          *)
(***************************************************************************)
InitSys ==
    /\ meetings = {}
    /\ nextId = 1
    /\ points = {}
    /\ platform \in {"epoch", "invalid"}
    /\ last = Idle
    /\ deleted = {}

Init ==
    /\ InitSys
    /\ ctext = <<>> /\ csize = ChunkSizeDefault /\ coverlap = OverlapDefault
    /\ cresult = NotRun
    /\ eresp = [kind |-> "ConnectionError"] /\ eresult = NotRun
    /\ dtoks = <<>> /\ dpdf = NotRun /\ drag = NotRun
    /\ reqs = NoRequests

Next == Upload \/ DeleteMeeting \/ Query \/ Respond

\* the service handling upload, delete and query requests one at a time
Spec == Init /\ [][Next]_vars

InitChunk ==
    /\ InitSys
    /\ platform = "epoch"
    /\ \E in \in ChunkInputs : ctext = in[1] /\ csize = in[2] /\ coverlap = in[3]
    /\ cresult = NotRun
    /\ eresp = [kind |-> "ConnectionError"] /\ eresult = NotRun
    /\ dtoks = <<>> /\ dpdf = NotRun /\ drag = NotRun
    /\ reqs = NoRequests

NextChunk == ChunkCall

\* chunk_text applied to one text under one configuration
SpecChunk == InitChunk /\ [][NextChunk]_vars

InitEmbed ==
    /\ InitSys
    /\ platform = "epoch"
    /\ ctext = <<>> /\ csize = ChunkSizeDefault /\ coverlap = OverlapDefault
    /\ cresult = NotRun
    /\ eresp \in ProviderResponses
    /\ eresult = NotRun
    /\ dtoks = <<>> /\ dpdf = NotRun /\ drag = NotRun
    /\ reqs = NoRequests

NextEmbed == EmbedCall

\* generate_embedding applied to one outcome of the provider call
SpecEmbed == InitEmbed /\ [][NextEmbed]_vars

InitDate ==
    /\ InitSys
    /\ platform = "epoch"
    /\ ctext = <<>> /\ csize = ChunkSizeDefault /\ coverlap = OverlapDefault
    /\ cresult = NotRun
    /\ eresp = [kind |-> "ConnectionError"] /\ eresult = NotRun
    /\ dtoks \in TokensUpTo(MaxTokens)
    /\ dpdf = NotRun /\ drag = NotRun
    /\ reqs = NoRequests

NextDate == ExtractDateCall \/ ExtractDateFromQueryCall

\* the two extractors applied to one text
SpecDate == InitDate /\ [][NextDate]_vars

NextConc ==
    \E r \in 1..MaxRequests :
        \/ UploadStart(r)
        \/ UploadCheck(r)
        \/ UploadDeleteOld(r)
        \/ UploadCommit(r)
        \/ UploadStore(r)
        \/ UploadUpdate(r)

\* upload requests whose steps interleave
SpecConc == Init /\ [][NextConc]_vars

(***************************************************************************)
(* Properties                                                              *)
(***************************************************************************)
LastQuery == CHOOSE q \in Queries : q.name = last.q

Contains(t, sub) == \E i \in 1..Len(t) : IsPrefixAt(t, i, sub)

PointsOfMeeting(id) == {p \in points : p.meeting_db_id = id}

\* C1: every failure on the query path resolves to a returned result with a
\* textual answer; RAGService.query never lets an exception out, whichever of
\* its external calls fails.
C1_QueryNeverRaises ==
    last.op = "query" => last.res.outcome # "exception"

\* C2 as claimed: once a delete-meeting request for meeting id m has
\* completed, the store holds no point of m, also when the vector-store
\* delete failed.
C2_NoOrphansEver ==
    \A d \in deleted : PointsOfMeeting(d.id) = {}

\* C2 as amended: once a delete-meeting request for meeting id m has
\* completed with its vector-store delete succeeding, the store holds no
\* point of m in any later state.
C2_NoPointsAfterSuccessfulVectorDelete ==
    \A d \in deleted : d.vectors_deleted => PointsOfMeeting(d.id) = {}

C2_Witness ==
    /\ last.op = "delete" /\ last.status = 200
    /\ last.vectors_deleted /\ last.had_points > 0
    /\ [id |-> last.id, vectors_deleted |-> TRUE] \in deleted

\* The points a re-upload must leave for its meeting: one per chunk index
\* 0..total_chunks-1, each with a text of the uploaded document
ExactlyNewDocument ==
    LET mine == PointsOfMeeting(last.meeting_id)
    IN  /\ \A p \in mine : p.text.doc = last.doc
        /\ {p.chunk_index : p \in mine} = 0..(last.total_chunks - 1)
        /\ Cardinality(mine) = last.total_chunks

\* C3 as claimed: after a successful upload for a date that already has a
\* meeting record, the store holds for that meeting id exactly the points of
\* the new document and none of the earlier one.
C3_ReuploadIsCleanReplace ==
    (last.op = "upload" /\ last.status = 200 /\ last.existing)
        => ExactlyNewDocument

\* C3 as amended: the same, for a re-upload whose delete of the old vectors
\* did not fail.
C3_ReuploadCleanWhenOldVectorsDeleted ==
    (last.op = "upload" /\ last.status = 200 /\ last.existing /\ last.old_deleted)
        => ExactlyNewDocument

C3_Witness ==
    /\ last.op = "upload" /\ last.status = 200 /\ last.existing /\ last.old_deleted
    /\ last.old_points > last.total_chunks

\* C4: with uploads handled one at a time there is at most one meeting record
\* per meeting date, and an upload whose date equals that of an existing
\* record keeps the records as they were (same id, same date) and answers
\* with that record's id.
C4_OneRecordPerDate ==
    /\ \A m1 \in meetings, m2 \in meetings :
          m1.meeting_date = m2.meeting_date => m1 = m2
    /\ (last.op = "upload" /\ last.date # None)
          => \A row \in last.rows_before :
                row[2] = last.date
                  => /\ {<<m.id, m.meeting_date>> : m \in meetings} = last.rows_before
                     /\ last.meeting_id = row[1]

C4_Witness ==
    /\ last.op = "upload" /\ last.status = 200 /\ last.existing
    /\ \E row \in last.rows_before : row[2] = last.date

\* C5: query tries the date extractor on the query text first; a date it
\* yields is the resolved date and most_recent_date() is not consulted, even
\* if no meeting has that date; most_recent_date() is called only when the
\* extractor finds nothing.
C5_DateResolutionOrder ==
    last.op = "query" =>
        LET qd == extract_date_from_query(LastQuery.toks)
            consulted == \E k \in 1..Len(last.res.calls) :
                            last.res.calls[k] = "most_recent_date"
        IN  /\ last.res.calls[1] = "extract_date"
            /\ qd # None => (last.res.date = qd /\ ~consulted)
            /\ qd = None => consulted

C5_Witness ==
    /\ last.op = "query" /\ ~last.empty_store
    /\ last.res.outcome = "no-match"
    /\ last.res.date = MkDate(2025, 10, 26)
    /\ \A p \in points : p.meeting_date # IsoFormat(MkDate(2025, 10, 26))

\* C6: a query without a resolvable date, run against an empty vector store,
\* returns the fixed no-data answer with no sources and null meeting_date
\* and meeting_date_formatted, and calls neither search nor the generation
\* service.
C6_NoDataAnswer ==
    (/\ last.op = "query"
     /\ extract_date_from_query(LastQuery.toks) = None
     /\ last.empty_store)
        => /\ last.res.outcome = "no-data"
           /\ last.res.answer = [kind |-> "no-data"]
           /\ last.res.sources = <<>>
           /\ last.res.meeting_date = None
           /\ last.res.meeting_date_formatted = None
           /\ \A k \in 1..Len(last.res.calls) :
                 last.res.calls[k] \notin {"search", "generate"}

\* C7: a query with a resolved date whose filtered search returns no chunk
\* returns the no-match answer, which holds the formatted date (weekday, day
\* with ordinal suffix, month name, year) of the resolved date; the source
\* list is empty and the generation service is not called.
C7_NoMatchAnswerHoldsFormattedDate ==
    (last.op = "query" /\ last.res.outcome = "no-match")
        => /\ Contains(last.res.answer.date_text, FormatDateRoute(last.res.date))
           /\ last.res.sources = <<>>
           /\ \A k \in 1..Len(last.res.calls) : last.res.calls[k] # "generate"

\* C8: in the answered and generation-error outcomes the source list has
\* between one and five entries and every source carries the resolved date.
C8_SourcesOfResolvedDateOnly ==
    (last.op = "query" /\ last.res.outcome \in {"answered", "generation-error"})
        => /\ Len(last.res.sources) >= 1
           /\ Len(last.res.sources) <= 5
           /\ \A k \in 1..Len(last.res.sources) :
                 FromIsoFormat(last.res.sources[k].meeting_date) = last.res.date

C8_Witness ==
    /\ last.op = "query" /\ last.res.outcome = "answered"
    /\ Len(last.res.sources) = 5
    /\ Cardinality({p \in points : FromIsoFormat(p.meeting_date) = last.res.date}) > 5
    /\ \E p \in points : FromIsoFormat(p.meeting_date) # last.res.date

\* The number of k >= 0 with k * step < n
WindowCount(n, step) == Cardinality({k \in 0..n : k * step < n})

\* C9: with overlap < window, chunk returns for a text of n words the windows
\* words[k*(window-overlap) : k*(window-overlap)+window] for every k >= 0
\* with k*(window-overlap) < n, in order, and nothing else; no chunk is
\* empty; window 1000, overlap 200 and 2400 words give exactly 3 chunks.
C9_ChunksAreTheWindows ==
    (cresult # NotRun /\ coverlap < csize) =>
        LET words == Split(ctext)
            n     == Len(words)
            step  == csize - coverlap
            cnt   == WindowCount(n, step)
        IN  /\ cresult.error = ""
            /\ Len(cresult.chunks) = cnt
            /\ \A k \in 0..(cnt - 1) :
                  /\ cresult.chunks[k + 1] =
                        Join(SubSeq(words, k * step + 1, Min(k * step + csize, n)))
                  /\ cresult.chunks[k + 1] # <<>>
            /\ (n = 2400 /\ csize = 1000 /\ coverlap = 200)
                  => Len(cresult.chunks) = 3

C9_Witness ==
    /\ cresult # NotRun
    /\ Len(Split(ctext)) = 2400 /\ csize = 1000 /\ coverlap = 200
    /\ Len(cresult.chunks) = 3

\* The word positions <<start, end>> (end exclusive) of the returned chunks:
\* the windows of the loop, which the returned chunks match one for one
ChunkPositions == chunk_bounds(Len(Split(ctext)), csize, coverlap).bounds

PositionsMatchChunks ==
    /\ Len(ChunkPositions) = Len(cresult.chunks)
    /\ \A k \in 1..Len(ChunkPositions) :
          Len(Split(cresult.chunks[k])) = ChunkPositions[k][2] - ChunkPositions[k][1]

\* C10 as claimed: of any two consecutive chunks returned, the later starts
\* exactly overlap words before the word position at which the earlier ends.
C10_OverlapBetweenAllConsecutiveChunks ==
    (cresult # NotRun /\ coverlap < csize) =>
        /\ PositionsMatchChunks
        /\ \A k \in 1..(Len(ChunkPositions) - 1) :
              ChunkPositions[k + 1][1] = ChunkPositions[k][2] - coverlap

\* C10 as amended: the later chunk starts window - overlap words after the
\* start of the earlier one; it starts exactly overlap words before the end
\* of the earlier one when the earlier chunk holds a full window of words,
\* and fewer than overlap words before it when the end of the text cut the
\* earlier chunk short.
C10_OverlapAfterFullChunks ==
    (cresult # NotRun /\ coverlap < csize) =>
        /\ PositionsMatchChunks
        /\ \A k \in 1..(Len(ChunkPositions) - 1) :
              LET lo   == ChunkPositions[k][1]
                  hi   == ChunkPositions[k][2]
                  next == ChunkPositions[k + 1][1]
              IN  /\ next = lo + (csize - coverlap)
                  /\ hi - lo = csize => next = hi - coverlap
                  /\ hi - lo < csize => hi - next < coverlap

C10_Witness ==
    /\ cresult # NotRun /\ coverlap < csize /\ coverlap > 0
    /\ Len(cresult.chunks) >= 3
    /\ \E k \in 1..(Len(ChunkPositions) - 1) :
          /\ ChunkPositions[k][2] - ChunkPositions[k][1] = csize
          /\ ChunkPositions[k + 1][1] = ChunkPositions[k][2] - coverlap

\* C11: chunk_text rejects every configuration with overlap >= chunk_size
\* with an error, for every text, the empty text included, and returns no
\* chunk list.
C11_RejectsOverlapAtLeastWindow ==
    (cresult # NotRun /\ coverlap >= csize) => cresult.error # ""

\* The points stored under meeting id whose text is a chunk of document name
PointsOfDocument(id, name) == {p \in PointsOfMeeting(id) : p.text.doc = name}

\* C12 as claimed: ingesting the 2500-word document dated "Monday 3rd March,
\* 2025" with the default window and overlap yields the date 2025-03-03 and
\* exactly 3 chunks, and a successful upload upserts that many points.
C12_IngestYieldsThreeChunks ==
    (last.op = "upload" /\ last.doc = "A4") =>
        /\ last.date = MkDate(2025, 3, 3)
        /\ last.total_chunks = 3
        /\ last.status = 200 =>
              Cardinality(PointsOfDocument(last.meeting_id, "A4")) = 3

\* C12 amended: the same ingestion yields the date 2025-03-03 and exactly 4
\* chunks (the windows at words 0, 800, 1600 and 2400), and a successful
\* upload upserts 4 points, with chunk indexes 0..3.
C12_IngestYieldsFourChunks ==
    (last.op = "upload" /\ last.doc = "A4") =>
        /\ last.date = MkDate(2025, 3, 3)
        /\ last.total_chunks = 4
        /\ last.status = 200 =>
              {p.chunk_index : p \in PointsOfDocument(last.meeting_id, "A4")} = 0..3

C12_Witness ==
    /\ last.op = "upload" /\ last.doc = "A4" /\ last.status = 200
    /\ last.total_chunks = 4
    /\ Cardinality(PointsOfDocument(last.meeting_id, "A4")) = 4

\* a flat list of exactly VectorSize numbers
IsEmbedding(v) ==
    /\ v.ty = "list"
    /\ Len(v.items) = VectorSize
    /\ \A k \in 1..Len(v.items) : v.items[k].ty = "num"

\* a response body that is neither a vector of VectorSize numbers nor a
\* batch of one wrapping such a vector
Malformed(resp) ==
    /\ resp.kind = "json"
    /\ ~IsEmbedding(resp.body)
    /\ ~(/\ resp.body.ty = "list" /\ Len(resp.body.items) = 1
         /\ IsEmbedding(resp.body.items[1]))

\* C13: generate_embedding returns on every call a flat vector of exactly
\* VectorSize numbers and never raises; on a provider failure (network
\* error, timeout, HTTP error status, malformed body) that vector is all zero.
C13_EmbeddingHasDimension ==
    eresult # NotRun =>
        /\ IsEmbedding(eresult)
        /\ (eresp.kind # "json" \/ Malformed(eresp)) => eresult = ZeroVector

\* the sources of the last query, when its search returned some
SearchResults ==
    IF last.op = "query" /\ last.res.outcome \in {"answered", "generation-error"}
    THEN last.res.sources ELSE <<>>

\* C14: a point written by upsert for meeting id m and chunk index i is
\* returned by a search filtered on that meeting's date (as long as no more
\* than top_k points pass the filter), and the result handed to the caller
\* carries chunk_index = i and meeting_db_id = m.
C14_PayloadRoundTrip ==
    (last.op = "query" /\ last.res.outcome \in {"answered", "generation-error"}) =>
        \A p \in points :
            (/\ p.meeting_date = last.res.meeting_date
             /\ Cardinality({x \in points : x.meeting_date = p.meeting_date}) <= TopK)
            => \E k \in 1..Len(SearchResults) :
                  /\ SearchResults[k].text = p.text
                  /\ SearchResults[k].chunk_index = p.chunk_index
                  /\ "meeting_db_id" \in DOMAIN SearchResults[k]
                  /\ SearchResults[k].meeting_db_id = p.meeting_db_id

\* C15: QdrantService.delete_meeting on a meeting that owns no point, the
\* meeting whose qdrant_collection was never set included, completes without
\* error and changes nothing; on a meeting with N points it leaves none of
\* them in the collection and leaves the points of every other meeting alone.
\* (Stated for the delete requests whose client.delete call the vector store
\* serves.)
C15_DeleteByMeeting ==
    [][(last.op = "idle" /\ last'.op = "delete" /\ last'.status = 200 /\ last'.client_ok) =>
          /\ PointsOfMeeting(last'.id) = {} =>
                (last'.vectors_deleted /\ points' = points)
          /\ \A p \in points' : p.meeting_db_id # last'.id
          /\ \A p \in points : p.meeting_db_id # last'.id => p \in points']_vars

\* The date the claim describes: that of the first pattern of the list whose
\* leftmost match has an alphabetic month name of the table and forms a
\* calendar date; None (NotFound) when there is no such pattern
RECURSIVE FirstValidDate(_, _)
FirstValidDate(toks, pats) ==
    IF pats = <<>> THEN None
    ELSE IF TryPattern(toks, Head(pats)).res = "date"
         THEN TryPattern(toks, Head(pats)).date
         ELSE FirstValidDate(toks, Tail(pats))

\* C16: both extractors try their patterns in list order and return the date
\* of the first pattern whose match forms a valid calendar date with a month
\* name of the table; other matches are skipped; without such a pattern the
\* result is None; no text makes them raise.
C16_ExtractDateFirstValidNeverRaises ==
    /\ dpdf # NotRun =>
          (dpdf # Raised /\ dpdf = FirstValidDate(dtoks, <<"pdf1", "pdf2", "pdf3">>))
    /\ drag # NotRun =>
          (drag # Raised /\ drag = FirstValidDate(dtoks, <<"rag1", "rag2", "rag3">>))

\* C17: an upload rejected because process_pdf found no text or no date
\* commits nothing: the rows of meeting_minutes, the id sequence and the
\* points of the collection are what they were; and no row is ever without
\* a meeting date.
C17_RejectedUploadCommitsNothing ==
    /\ [](\A m \in meetings : m.meeting_date # None)
    /\ [][(last.op = "idle" /\ last'.op = "upload" /\ last'.date = None) =>
             /\ last'.status = 400
             /\ meetings' = meetings
             /\ nextId' = nextId
             /\ points' = points]_vars

C17_Witness ==
    /\ last.op = "upload" /\ last.date = None /\ last.status = 400
    /\ meetings # {} /\ points # {}

\* C19: an upload that ends in an error response leaves the rows of
\* meeting_minutes and the points of the collection as they were before the
\* request; in particular a failed upsert leaves no row without points.
C19_FailedUploadLeavesStoresAlone ==
    [][(last.op = "idle" /\ last'.op = "upload" /\ last'.status # 200) =>
          /\ meetings' = meetings
          /\ points' = points]_vars

\* the requests that found no row for date d at their check and have
\* passed their commit
CommittedFor(d) ==
    {r \in 1..MaxRequests :
        /\ reqs[r].pc \in {"store", "update", "done"}
        /\ reqs[r].rec # None /\ ~reqs[r].existing
        /\ reqs[r].rec.meeting_date = d}

RowsOf(d) == FindExisting(meetings, d)

\* C18: uploads of one date are not serialized: every request that found
\* no row for its date at the existing-record check commits a row of its
\* own, whatever the other requests did since, so two requests whose checks
\* both precede their commits leave two rows for the date.
C18_EveryUncheckedCommitAddsARow ==
    \A r \in 1..MaxRequests :
        reqs[r].rec # None =>
            Cardinality(RowsOf(reqs[r].rec.meeting_date))
                = Cardinality(CommittedFor(reqs[r].rec.meeting_date))

\* one date with two meeting records
C18_Witness ==
    \E r1, r2 \in 1..MaxRequests :
        /\ r1 # r2
        /\ reqs[r1].pc = "done" /\ reqs[r2].pc = "done"
        /\ reqs[r1].status = 200 /\ reqs[r2].status = 200
        /\ reqs[r1].rec.meeting_date = reqs[r2].rec.meeting_date
        /\ Cardinality(RowsOf(reqs[r1].rec.meeting_date)) = 2

====
